---- MODULE Spec2Model ----
(***************************************************************************)
(* Model of generators/app/package-json.js: the merge of a current         *)
(* package.json document with the generator's rendering context.           *)
(*                                                                         *)
(* A JavaScript plain object is an ordered map: a sequence of <<key,       *)
(* value>> pairs with distinct keys, in property-insertion order.  The     *)
(* top-level document is a record whose domain is the set of its fields.   *)
(* Strings are TLA+ strings; their order is the UTF-16 code-unit order     *)
(* that Array.prototype.sort uses.                                         *)
(***************************************************************************)
EXTENDS Integers, Sequences, FiniteSets, TLC

VARIABLES
  pkg,       \* plugin/package.json as the module required it
  DEFAULTS,  \* the module-level table of baseline versions
  current,   \* the document the caller passes, as the caller sees it
  context,   \* the rendering context the caller passes
  result,    \* the document the last call returned
  error,     \* whether the module load or the last call threw
  op         \* the last step taken

vars == <<pkg, DEFAULTS, current, context, result, error, op>>

(* Bounds of the explored inputs. *)
MaxScripts == 2
MaxKeywords == 2
MaxDeps == 1
MaxFields == 2

\* no document
None == <<>>

----------------------------------------------------------------------------
(* Strings *)

\* The characters that occur in keys, in ascending UTF-16 code-unit order.
Alphabet ==
  << "-", ".", "/", "0", "1", "2", "3", "4", "5", "6", "7", "8", "9", ":",
     "A", "B", "C", "D", "E", "F", "G", "H", "I", "J", "K", "L", "M",
     "N", "O", "P", "Q", "R", "S", "T", "U", "V", "W", "X", "Y", "Z", "_",
     "a", "b", "c", "d", "e", "f", "g", "h", "i", "j", "k", "l", "m",
     "n", "o", "p", "q", "r", "s", "t", "u", "v", "w", "x", "y", "z" >>

CharCode ==
  [c \in {Alphabet[i] : i \in DOMAIN Alphabet} |->
     CHOOSE i \in DOMAIN Alphabet : Alphabet[i] = c]

RECURSIVE LessFrom(_, _, _)
LessFrom(a, b, i) ==
  IF i > Len(a) THEN i <= Len(b)
  ELSE IF i > Len(b) THEN FALSE
  ELSE LET ca == CharCode[SubSeq(a, i, i)]
           cb == CharCode[SubSeq(b, i, i)]
       IN  IF ca # cb THEN ca < cb ELSE LessFrom(a, b, i + 1)

\* a sorts strictly before b under the default comparator of Array.prototype.sort
StrLess(a, b) == LessFrom(a, b, 1)

startsWith(k, prefix) ==
  Len(k) >= Len(prefix) /\ SubSeq(k, 1, Len(prefix)) = prefix

substr(k, from) == SubSeq(k, from + 1, Len(k))

----------------------------------------------------------------------------
(* Arrays *)

Range(s) == {s[i] : i \in DOMAIN s}

\* s.filter(P)
filter(s, P(_)) == SelectSeq(s, P)

\* 0-based index of the first occurrence of x, -1 when absent
indexOf(s, x) ==
  IF \E i \in DOMAIN s : s[i] = x
  THEN (CHOOSE i \in DOMAIN s : s[i] = x /\ \A j \in 1..(i - 1) : s[j] # x) - 1
  ELSE -1

\* s.splice(at, 0, x)
splice(s, at, x) == SubSeq(s, 1, at) \o <<x>> \o SubSeq(s, at + 1, Len(s))

\* _.difference(s, t)
difference(s, t) == filter(s, LAMBDA x : \A j \in DOMAIN t : t[j] # x)

\* the first occurrences of the values of s, in order
uniq(s) ==
  LET firsts == SelectSeq([i \in DOMAIN s |-> i],
                          LAMBDA i : \A j \in 1..(i - 1) : s[j] # s[i])
  IN  [n \in DOMAIN firsts |-> s[firsts[n]]]

\* _.union(a, b): the distinct values of a then b, in order of first occurrence
union(a, b) == uniq(a \o b)

\* s.sort() with the default comparator
sort(s) == SortSeq(s, StrLess)

----------------------------------------------------------------------------
(* Plain objects as ordered maps *)

Keys(m) == [i \in DOMAIN m |-> m[i][1]]

has(m, k) == \E i \in DOMAIN m : m[i][1] = k

get(m, k) == m[CHOOSE i \in DOMAIN m : m[i][1] = k][2]

\* delete m[k]
delete(m, k) == filter(m, LAMBDA e : e[1] # k)

\* _.assign(target, source): target[k] = v for each entry of source in turn;
\* a key target has keeps its place and takes the new value, the new keys
\* follow in the order of source
assign(target, source) ==
  [i \in DOMAIN target |->
     IF has(source, target[i][1])
     THEN <<target[i][1], get(source, target[i][1])>>
     ELSE target[i]]
  \o SelectSeq(source, LAMBDA e : ~has(target, e[1]))

\* _.pick(source, order): a new object with the keys of order that source
\* has, set in the order of `order`
pick(source, order) ==
  LET present == SelectSeq(order, LAMBDA k : has(source, k))
  IN  [i \in DOMAIN present |-> <<present[i], get(source, present[i])>>]

----------------------------------------------------------------------------
(* Canonical ordering *)

alphabetizeObject(source) == pick(source, sort(Keys(source)))

isPrePost(k) == startsWith(k, "pre") \/ startsWith(k, "post")

injectOneOrphanFirst(order, pp) ==
  LET isPre == startsWith(pp, "pre")
      i == indexOf(order, substr(pp, IF isPre THEN 3 ELSE 4))
  IN  IF i > -1
      THEN splice(order, IF isPre THEN i ELSE i + 1, pp)
      ELSE <<pp>> \o order

\* the body of the forEach on lines 79-93, for one pre/post script
injectOne(order, pp) ==
  LET isPre == startsWith(pp, "pre")
      i == indexOf(order, substr(pp, IF isPre THEN 3 ELSE 4))
  IN  IF i > -1
      THEN splice(order, IF isPre THEN i ELSE i + 1, pp)
      ELSE Append(order, pp)

\* prePost.forEach(...) on lines 79-93; each iteration works on the value of
\* `order` that the previous one left
RECURSIVE inject(_, _)
inject(order, prePost) ==
  IF prePost = <<>> THEN order
  ELSE CHOOSE done \in { inject(next, Tail(prePost)) :
                           next \in {injectOne(order, Head(prePost))} } : TRUE

alphabetizeScripts(source) ==
  LET keys == Keys(source)
      prePost == filter(keys, isPrePost)
      order == sort(difference(keys, prePost))
  IN  pick(source, inject(order, prePost))

----------------------------------------------------------------------------
(* The version registry: plugin/package.json as required on line 5 *)

Undefined == "undefined"

BaselineDependencies == <<"global", "video.js">>

BaselineDevDependencies ==
  << "conventional-changelog-cli", "conventional-changelog-videojs", "karma",
     "npm-run-all", "rollup", "shx", "videojs-generate-rollup-config",
     "videojs-generate-karma-config", "not-prerelease", "sinon",
     "videojs-standard", "npm-merge-driver-install", "husky", "lint-staged",
     "videojs-generator-verify" >>

DocsDevDependencies == <<"doctoc", "jsdoc">>
CssDevDependencies == <<"postcss-cli", "videojs-generate-postcss-config">>
LangDevDependencies == <<"videojs-languages">>

\* the version constraint plugin/package.json declares for a package
DeclaredVersion(n) == "^" \o n

\* plugin/package.json with the packages of `missing` left undeclared
PluginPackage(missing) ==
  LET declare(names) ==
        [i \in DOMAIN names |-> <<names[i], DeclaredVersion(names[i])>>]
      declared(names) == declare(filter(names, LAMBDA n : n \notin missing))
  IN  [ optionalDependencies |-> <<>>,
        devDependencies |->
          declared(BaselineDevDependencies \o DocsDevDependencies
                   \o CssDevDependencies \o LangDevDependencies),
        dependencies |-> declared(BaselineDependencies) ]

getGeneratorVersion(p, pkgName) ==
  IF has(p.optionalDependencies, pkgName) THEN get(p.optionalDependencies, pkgName)
  ELSE IF has(p.devDependencies, pkgName) THEN get(p.devDependencies, pkgName)
  ELSE IF has(p.dependencies, pkgName) THEN get(p.dependencies, pkgName)
  ELSE Undefined

getGeneratorVersionsLenient(p, pkgList) ==
  LET names == SelectSeq(uniq(pkgList),
                         LAMBDA n : getGeneratorVersion(p, n) # Undefined)
  IN  [threw |-> FALSE,
       value |-> [i \in DOMAIN names |->
                    <<names[i], getGeneratorVersion(p, names[i])>>]]

\* pkgList.reduce(...): threw is set when some version is missing, value is
\* the accumulated object otherwise
getGeneratorVersions(p, pkgList) ==
  LET names == uniq(pkgList)
  IN  IF \E i \in DOMAIN pkgList : getGeneratorVersion(p, pkgList[i]) = Undefined
      THEN [threw |-> TRUE, value |-> <<>>]
      ELSE [threw |-> FALSE,
            value |-> [i \in DOMAIN names |->
                         <<names[i], getGeneratorVersion(p, names[i])>>]]

\* the module-level constant, computed when the module is loaded
LoadDEFAULTS(p) ==
  LET deps == getGeneratorVersions(p, BaselineDependencies)
      devDeps == getGeneratorVersions(p, BaselineDevDependencies)
  IN  [ threw |-> deps.threw \/ devDeps.threw,
        dependencies |-> deps.value,
        devDependencies |-> devDeps.value ]

----------------------------------------------------------------------------
(* packageJSON *)

\* str.replace(/%s/g, context.pluginName), str given as its pieces around %s
RECURSIVE scriptify(_, _)
scriptify(ctx, parts) ==
  IF Len(parts) = 1 THEN parts[1]
  ELSE parts[1] \o ctx.pluginName \o scriptify(ctx, Tail(parts))

generatorVersion == "generatorVersion()"

BaselineScripts ==
  << <<"prebuild", "npm run clean">>,
     <<"build", "npm-run-all -p build:*">>,
     <<"build:js", "rollup -c scripts/rollup.config.js">>,
     <<"clean", "shx rm -rf ./dist ./test/dist">>,
     <<"postclean", "shx mkdir -p ./dist ./test/dist">>,
     <<"lint", "vjsstandard">>,
     <<"prepublishOnly", "npm-run-all build test:verify">>,
     <<"start", "npm-run-all -p server watch">>,
     <<"server", "karma start scripts/karma.conf.js --singleRun=false --auto-watch">>,
     <<"pretest", "npm-run-all lint build">>,
     <<"test", "npm-run-all test:*">>,
     <<"test:verify", "vjsverify --verbose">>,
     <<"test:unit", "karma start scripts/karma.conf.js">>,
     <<"posttest", "shx cat test/dist/coverage/text.txt">>,
     <<"preversion", "npm test">>,
     <<"version", "is-prerelease || npm run update-changelog && git add CHANGELOG.md">>,
     <<"update-changelog", "conventional-changelog -p videojs -i CHANGELOG.md -s">>,
     <<"watch", "npm-run-all -p watch:*">>,
     <<"watch:js", "npm run build:js -- -w">> >>

DocsScripts ==
  << <<"docs", "npm-run-all docs:*">>,
     <<"docs:api", "jsdoc src -g plugins/markdown -r -d docs/api">>,
     <<"docs:toc", "doctoc README.md">> >>

CssScripts(ctx) ==
  << <<"build:css",
       scriptify(ctx, <<"postcss -o dist/",
                        ".css --config scripts/postcss.config.js src/plugin.css">>)>>,
     <<"watch:css", "npm run build:css -- -w">> >>

LangScripts == << <<"build:lang", "vjslang --dir dist/lang">> >>

BaselineKeywords == <<"videojs", "videojs-plugin">>

BaselineFiles ==
  <<"CONTRIBUTING.md", "dist/", "docs/", "index.html", "scripts/", "src/", "test/">>

HuskyHooks ==
  << <<"pre-commit", "lint-staged">>, <<"pre-push", "npm run test">> >>

LintStaged ==
  << <<"*.js", <<"vjsstandard --fix", "git add">> >>,
     <<"README.md", <<"npm run docs:toc", "git add">> >> >>

\* a field of the current document; an absent one reads as undefined, which
\* _.assign and _.union take as nothing to merge
field(doc, f) == IF f \in DOMAIN doc THEN doc[f] ELSE <<>>

\* The objects that the nested assignments write into: `{}` on lines 119,
\* 133, 201 and 204 is a new object.
ResultTarget == "new"
ScriptsTarget == "new.scripts"
DependenciesTarget == "new.dependencies"
DevDependenciesShared == "DEFAULTS.devDependencies"
DevDependenciesTarget == "new.devDependencies"

\* the objects reachable from the arguments and the module, plus the new ones
Heap(cur, defaults) ==
  [ loc \in { "current.scripts", "current.dependencies", "current.devDependencies",
              "DEFAULTS.dependencies", "DEFAULTS.devDependencies",
              "new.scripts", "new.dependencies", "new.devDependencies" } |->
      CASE loc = "current.scripts" -> field(cur, "scripts")
        [] loc = "current.dependencies" -> field(cur, "dependencies")
        [] loc = "current.devDependencies" -> field(cur, "devDependencies")
        [] loc = "DEFAULTS.dependencies" -> defaults.dependencies
        [] loc = "DEFAULTS.devDependencies" -> defaults.devDependencies
        [] OTHER -> <<>> ]

\* the argument `current` as the caller sees it once the call is over
CurrentAfter(cur, h) ==
  [ f \in DOMAIN cur |->
      CASE f = "scripts" -> h["current.scripts"]
        [] f = "dependencies" -> h["current.dependencies"]
        [] f = "devDependencies" -> h["current.devDependencies"]
        [] OTHER -> cur[f] ]

DefaultsAfter(h) ==
  [ dependencies |-> h["DEFAULTS.dependencies"],
    devDependencies |-> h["DEFAULTS.devDependencies"] ]

\* lines 133-153: _.assign({}, current.scripts, {...})
mergeScriptsCurrentWins(target, curScripts) ==
  assign(assign(target, BaselineScripts), curScripts)

mergeScripts(target, curScripts) ==
  assign(assign(target, curScripts), BaselineScripts)

\* line 162
keywordsUnsorted(cur) == union(BaselineKeywords, field(cur, "keywords"))

keywords(cur) == sort(union(BaselineKeywords, field(cur, "keywords")))

\* line 119: _.assign({}, current, {...})
mergeTopCurrentWins(cur, generated) == cur @@ generated

mergeTop(cur, generated) == generated @@ cur

\* line 229
docsAlways(ctx) == TRUE

docsOption(ctx) == ctx.docs

\* The state of a call in progress: the heap, the local `result` (its nested
\* maps live in the heap) and whether getGeneratorVersions has thrown.

\* lines 119-208: the literal and the nested _.assign calls
compose(defaults, cur, ctx) ==
  LET h0 == Heap(cur, defaults)
      h1 == [h0 EXCEPT ![ScriptsTarget] = mergeScripts(@, h0["current.scripts"])]
      h2 == [h1 EXCEPT ![DependenciesTarget] =
               assign(assign(@, h0["current.dependencies"]),
                      h0["DEFAULTS.dependencies"])]
      generated ==
        ("name" :> ctx.packageName) @@
        ("version" :> ctx.version) @@
        ("description" :> ctx.description) @@
        ("main" :> scriptify(ctx, <<"dist/", ".cjs.js">>)) @@
        ("module" :> scriptify(ctx, <<"dist/", ".es.js">>)) @@
        ("generator-videojs-plugin" :> [version |-> generatorVersion]) @@
        ("browserslist" :> <<"defaults", "ie 11">>) @@
        ("scripts" :> <<>>) @@
        ("engines" :> [node |-> ">=8", npm |-> ">=5"]) @@
        ("keywords" :> keywords(cur)) @@
        ("author" :> ctx.author) @@
        ("license" :> ctx.licenseName) @@
        ("vjsstandard" :> [ignore |-> <<"dist", "docs", "test/dist">>]) @@
        ("files" :> BaselineFiles) @@
        ("husky" :> [hooks |-> HuskyHooks]) @@
        ("lint-staged" :> LintStaged) @@
        ("dependencies" :> <<>>) @@
        ("devDependencies" :> <<>>)
  IN  [ heap |-> [h2 EXCEPT ![DevDependenciesTarget] =
                    assign(assign(@, h0["current.devDependencies"]),
                           h0["DEFAULTS.devDependencies"])],
        top |-> mergeTop(cur, generated),
        threw |-> FALSE ]

\* lines 212-216
stripPrecommit(f, ctx) ==
  IF ~ctx.precommit
  THEN [f EXCEPT !.heap[ScriptsTarget] = delete(@, "precommit"),
                 !.top = [k \in DOMAIN @ \ {"lint-staged"} |->
                            IF k = "husky"
                            THEN [hooks |-> delete(@[k].hooks, "pre-commit")]
                            ELSE @[k]]]
  ELSE f

\* lines 218-221
stripPrepush(f, ctx) ==
  IF ~ctx.prepush
  THEN [f EXCEPT !.heap[ScriptsTarget] = delete(@, "prepush"),
                 !.top["husky"] = [hooks |-> delete(@.hooks, "pre-push")]]
  ELSE f

\* lines 223-226
stripHusky(f, ctx) ==
  IF ~ctx.prepush /\ ~ctx.precommit
  THEN [f EXCEPT !.heap[DevDependenciesTarget] =
                   delete(delete(@, "husky"), "lint-staged")]
  ELSE f

\* _.assign(result.scripts, scripts) followed by
\* _.assign(result.devDependencies, getGeneratorVersions(pkgList)); the
\* scripts are written before the lookup can throw
addFeature(p, f, scripts, pkgList) ==
  LET versions == getGeneratorVersions(p, pkgList)
  IN  IF versions.threw
      THEN [f EXCEPT !.heap[ScriptsTarget] = assign(@, scripts),
                     !.threw = TRUE]
      ELSE [f EXCEPT !.heap[ScriptsTarget] = assign(@, scripts),
                     !.heap[DevDependenciesTarget] = assign(@, versions.value)]

\* lines 229-238
applyDocs(p, f, ctx) ==
  IF ~f.threw /\ docsOption(ctx)
  THEN addFeature(p, f, DocsScripts, DocsDevDependencies)
  ELSE f

\* lines 240-251
applyCss(p, f, ctx) ==
  IF ~f.threw /\ ctx.css
  THEN addFeature(p, f, CssScripts(ctx), CssDevDependencies)
  ELSE f

\* lines 256-259
applyLang(p, f, ctx) ==
  IF ~f.threw /\ ctx.lang
  THEN addFeature(p, f, LangScripts, LangDevDependencies)
  ELSE f

\* lines 261-264
normalize(f) ==
  IF f.threw THEN f
  ELSE [f EXCEPT !.top["files"] = sort(@),
                 !.top["scripts"] = alphabetizeScripts(f.heap[ScriptsTarget]),
                 !.top["dependencies"] = alphabetizeObject(f.heap[DependenciesTarget]),
                 !.top["devDependencies"] =
                   alphabetizeObject(f.heap[DevDependenciesTarget])]

\* what the caller observes of a call: the exception or the returned
\* document, and the arguments and DEFAULTS as the call left them
outcome(cur, f) ==
  [ threw |-> f.threw,
    result |-> IF f.threw THEN None ELSE f.top,
    current |-> IF ResultTarget = "new" \/ f.threw
                THEN CurrentAfter(cur, f.heap) ELSE f.top,
    DEFAULTS |-> DefaultsAfter(f.heap) ]

packageJSON(p, defaults, cur, ctx) ==
  outcome(cur,
    normalize(
      applyLang(p,
        applyCss(p,
          applyDocs(p,
            stripHusky(
              stripPrepush(
                stripPrecommit(compose(defaults, cur, ctx), ctx),
                ctx),
              ctx),
            ctx),
          ctx),
        ctx)))

----------------------------------------------------------------------------
(* Inputs *)

\* the sequences of at most n distinct elements of S
SeqsOf(S, n) ==
  UNION { { q \in [1..k -> S] : \A i, j \in 1..k : q[i] = q[j] => i = j } : k \in 0..n }

\* script names a project may carry besides the generated ones
ScriptPool ==
  { "docs", "precommit", "pretest", "postpretest", "postinstall", "pre",
    "postpre" }

DepPool == { "husky", "lodash", "video.js" }

KeywordPool == { "streaming", "videojs", "Video" }

custom(keys, v) == [i \in DOMAIN keys |-> <<keys[i], v>>]

ScriptDocs ==
  { ("scripts" :> custom(keys, "echo custom")) : keys \in SeqsOf(ScriptPool, MaxScripts) }

DepDocs ==
  { ("dependencies" :> custom(deps, "~0.0.1")) @@ ("devDependencies" :> custom(dev, "~0.0.1")) :
      deps \in SeqsOf(DepPool \ {"husky"}, MaxDeps), dev \in SeqsOf(DepPool, MaxDeps) }

KeywordDocs ==
  { ("keywords" :> kw) :
      kw \in UNION { [1..k -> KeywordPool] : k \in 0..MaxKeywords } }

TopDocs ==
  { [f \in fs |-> CASE f = "lint-staged" -> << <<"*.css", <<"stylelint">> >> >>
                    [] f = "husky" -> [hooks |-> << <<"pre-commit", "npm test">> >>]
                    [] OTHER -> "old " \o f] :
      fs \in { t \in SUBSET {"author", "name", "license", "private", "repository",
                              "husky", "lint-staged"} : Cardinality(t) <= MaxFields } }

Documents == ScriptDocs \cup DepDocs \cup KeywordDocs \cup TopDocs

Contexts ==
  [ pluginName : {"videojs-demo"},
    packageName : {"@scope/videojs-demo"},
    version : {"1.2.3"},
    description : {"A demo"},
    author : {"Jane Doe"},
    licenseName : {"MIT"},
    docs : BOOLEAN, css : BOOLEAN, lang : BOOLEAN,
    precommit : BOOLEAN, prepush : BOOLEAN ]

\* packages that plugin/package.json may fail to declare
Undeclared == { {}, {"jsdoc"}, {"husky"} }

----------------------------------------------------------------------------
Init ==
  /\ pkg = [optionalDependencies |-> <<>>, devDependencies |-> <<>>, dependencies |-> <<>>]
  /\ DEFAULTS = [dependencies |-> <<>>, devDependencies |-> <<>>]
  /\ current \in Documents
  /\ context \in Contexts
  /\ result = None
  /\ error = FALSE
  /\ op = "init"

\* lines 5-43: the module is required
Load ==
  /\ op = "init"
  /\ \E missing \in Undeclared :
       LET p == PluginPackage(missing)
           d == LoadDEFAULTS(p)
       IN  /\ pkg' = p
           /\ error' = d.threw
           /\ DEFAULTS' = IF d.threw THEN DEFAULTS
                          ELSE [dependencies |-> d.dependencies,
                                devDependencies |-> d.devDependencies]
           /\ op' = IF d.threw THEN "failed" ELSE "loaded"
  /\ UNCHANGED <<current, context, result>>

\* a call of the exported function by a caller that holds doc and context
Call(doc) ==
  \E r \in {packageJSON(pkg, DEFAULTS, doc, context)} :
      /\ result' = r.result
      /\ error' = r.threw
      /\ current' = r.current
      /\ DEFAULTS' = r.DEFAULTS
      /\ UNCHANGED <<pkg, context>>

\* the generator runs on the project's package.json
Generate ==
  /\ op = "loaded"
  /\ Call(current)
  /\ op' = "generated"

\* the generator runs again on the package.json it wrote
Regenerate ==
  /\ op \in {"generated", "regenerated"}
  /\ ~error
  /\ Call(result)
  /\ op' = "regenerated"

Next == Load \/ Generate \/ Regenerate

Spec == Init /\ [][Next]_vars

----------------------------------------------------------------------------
(* Properties *)

TypeOK == op \in {"init", "loaded", "failed", "generated", "regenerated"}

\* a call of packageJSON has been made / has returned a document
Called == op \in {"generated", "regenerated"}
Returned == Called /\ ~error

KeySet(m) == {m[i][1] : i \in DOMAIN m}

\* 1-based position of key k in map m
Pos(m, k) == CHOOSE i \in DOMAIN m : m[i][1] = k

DocsKeys == KeySet(DocsScripts)

\* what the baseline and the enabled features generate, per nested map (the
\* hook tooling counts as generated only while a hook option is on)
GeneratedScripts(ctx) ==
  BaselineScripts
  \o (IF ctx.docs THEN DocsScripts ELSE <<>>)
  \o (IF ctx.css THEN CssScripts(ctx) ELSE <<>>)
  \o (IF ctx.lang THEN LangScripts ELSE <<>>)

RequestedDevDependencies(ctx) ==
  (IF ctx.docs THEN DocsDevDependencies ELSE <<>>)
  \o (IF ctx.css THEN CssDevDependencies ELSE <<>>)
  \o (IF ctx.lang THEN LangDevDependencies ELSE <<>>)

Versions(names) == [i \in DOMAIN names |-> <<names[i], DeclaredVersion(names[i])>>]

Generated(f, ctx) ==
  CASE f = "scripts" -> GeneratedScripts(ctx)
    [] f = "dependencies" -> Versions(BaselineDependencies)
    [] f = "devDependencies" ->
         Versions(SelectSeq(BaselineDevDependencies,
                            LAMBDA n : ctx.precommit \/ ctx.prepush
                                       \/ n \notin {"husky", "lint-staged"})
                  \o RequestedDevDependencies(ctx))

\* the keys the hook options strip from a nested map
Stripped(f, ctx) ==
  CASE f = "scripts" ->
         (IF ctx.precommit THEN {} ELSE {"precommit"})
         \cup (IF ctx.prepush THEN {} ELSE {"prepush"})
    [] f = "dependencies" -> {}
    [] f = "devDependencies" ->
         IF ~ctx.precommit /\ ~ctx.prepush THEN {"husky", "lint-staged"} ELSE {}

NestedMaps == {"scripts", "dependencies", "devDependencies"}

\* C1: running the pipeline on its own output changes nothing: after a
\* regeneration the returned document equals the document that was passed,
\* which is the previous output (key and element orders included).
C1_Idempotent == (op = "regenerated" /\ ~error) => result = current

\* C2: with docs=false the output scripts have no key docs, docs:api or
\* docs:toc, even when the current document's scripts had them.
C2_NoDocsScripts ==
  (Returned /\ ~context.docs) => KeySet(result["scripts"]) \cap DocsKeys = {}

\* C2 (amended): with docs=false the tool adds no docs script: the output
\* scripts have docs, docs:api or docs:toc only where the current document's
\* scripts had that key, and then with the current document's value.
C2_DocsScriptsOnlyFromCurrent ==
  (Returned /\ ~context.docs) =>
    \A k \in KeySet(result["scripts"]) \cap DocsKeys :
      /\ has(field(current, "scripts"), k)
      /\ get(result["scripts"], k) = get(field(current, "scripts"), k)

C2_Witness ==
  /\ Returned /\ op = "generated" /\ ~context.docs
  /\ has(field(current, "scripts"), "docs")
  /\ has(result["scripts"], "docs")
  /\ ~has(result["scripts"], "docs:api")

\* C3: for a current document with devDependencies.husky, precommit=false
\* and prepush=false leave no key named husky or lint-staged in the output:
\* not in scripts, not in the hooks, not in devDependencies, not at top level.
C3_NoHuskyAnywhere ==
  (Returned /\ has(field(current, "devDependencies"), "husky")
     /\ ~context.precommit /\ ~context.prepush) =>
    LET named == {"husky", "lint-staged"}
    IN  /\ KeySet(result["scripts"]) \cap named = {}
        /\ KeySet(result["devDependencies"]) \cap named = {}
        /\ ("husky" \in DOMAIN result => KeySet(result["husky"].hooks) \cap named = {})
        /\ DOMAIN result \cap named = {}

\* C4: in the output scripts the core names (no pre/post prefix) ascend
\* lexically, pre<X> when present is the key right before core X and
\* post<X> when present is the key right after it.
C4_LifecycleAdjacent ==
  Returned =>
    LET m == result["scripts"]
        ks == KeySet(m)
        cores == {k \in ks : ~isPrePost(k)}
    IN  /\ \A a, b \in cores : Pos(m, a) < Pos(m, b) => StrLess(a, b)
        /\ \A x \in cores :
             /\ ("pre" \o x) \in ks => Pos(m, "pre" \o x) = Pos(m, x) - 1
             /\ ("post" \o x) \in ks => Pos(m, "post" \o x) = Pos(m, x) + 1

\* C5: in scripts, dependencies and devDependencies every generated key has
\* the generated value whatever the current document says, and every other
\* key of the current document is in the output with its current value.
C5_Override ==
  Returned =>
    \A f \in NestedMaps :
      LET gen == Generated(f, context)
          cur == field(current, f)
          out == result[f]
      IN  /\ \A k \in KeySet(gen) : has(out, k) /\ get(out, k) = get(gen, k)
          /\ \A k \in KeySet(cur) \ KeySet(gen) :
               has(out, k) /\ get(out, k) = get(cur, k)

\* C5 (amended): the same, except for the keys the hook options strip
\* (scripts.precommit when precommit=false, scripts.prepush when
\* prepush=false, devDependencies husky and lint-staged when both are
\* false): those are absent from the output.
C5_OverrideExceptStripped ==
  Returned =>
    \A f \in NestedMaps :
      LET gen == Generated(f, context)
          cur == field(current, f)
          out == result[f]
          gone == Stripped(f, context)
      IN  /\ \A k \in KeySet(gen) \ gone : has(out, k) /\ get(out, k) = get(gen, k)
          /\ \A k \in (KeySet(cur) \ KeySet(gen)) \ gone :
               has(out, k) /\ get(out, k) = get(cur, k)
          /\ \A k \in gone : ~has(out, k)
          /\ KeySet(out) \subseteq KeySet(gen) \cup KeySet(cur)

C5_Witness ==
  /\ Returned /\ op = "generated"
  /\ has(field(current, "scripts"), "pretest")
  /\ has(field(current, "scripts"), "postinstall")
  /\ get(result["scripts"], "pretest") # get(current["scripts"], "pretest")
  /\ get(result["scripts"], "postinstall") = get(current["scripts"], "postinstall")

\* the package names plugin/package.json declares
Declared ==
  KeySet(pkg.optionalDependencies) \cup KeySet(pkg.devDependencies)
  \cup KeySet(pkg.dependencies)

Baseline == Range(BaselineDependencies) \cup Range(BaselineDevDependencies)

\* C6: a requested package name that the registry lacks is fatal and leaves
\* no output document: a missing baseline name fails the load (no call can
\* be made), a missing name of an enabled feature makes the call throw; when
\* every requested name resolves, the call returns a document.
C6_UnresolvedIsFatal ==
  /\ op = "failed" <=> (op # "init" /\ ~(Baseline \subseteq Declared))
  /\ op = "failed" => error /\ DOMAIN result = {}
  /\ Called =>
       /\ error <=> ~(Range(RequestedDevDependencies(context)) \subseteq Declared)
       /\ error => DOMAIN result = {}
       /\ ~error => DOMAIN result # {}

C6_Witness ==
  /\ Called /\ error /\ DOMAIN result = {}
  /\ context.docs /\ "jsdoc" \notin Declared

\* the top-level fields the literal on lines 119-208 sets
GeneratedFields ==
  { "name", "version", "description", "main", "module",
    "generator-videojs-plugin", "browserslist", "scripts", "engines",
    "keywords", "author", "license", "vjsstandard", "files", "husky",
    "lint-staged", "dependencies", "devDependencies" }

\* C7: the output's author, name, version, description and license are the
\* context's, whatever the current document has there; the top-level fields
\* of the current document that the tool does not generate are carried over.
C7_ManagedFieldsWin ==
  Returned =>
    /\ result["author"] = context.author
    /\ result["name"] = context.packageName
    /\ result["version"] = context.version
    /\ result["description"] = context.description
    /\ result["license"] = context.licenseName
    /\ \A f \in DOMAIN current \ GeneratedFields :
         f \in DOMAIN result /\ result[f] = current[f]

C7_Witness ==
  /\ Returned /\ op = "generated"
  /\ DOMAIN current = {"author", "private"}
  /\ current["author"] # context.author
  /\ result["author"] = "Jane Doe"
  /\ result["private"] = current["private"]

\* C8: the output keywords are the set union of videojs, videojs-plugin and
\* the current document's keywords, without duplicates, ascending.
C8_KeywordsSortedUnion ==
  Returned =>
    LET kw == result["keywords"]
    IN  /\ Range(kw) = {"videojs", "videojs-plugin"} \cup Range(field(current, "keywords"))
        /\ \A i, j \in DOMAIN kw : i < j => StrLess(kw[i], kw[j])

C8_Witness ==
  /\ Returned /\ op = "generated"
  /\ field(current, "keywords") = <<"videojs", "streaming">>
  /\ result["keywords"] = <<"streaming", "videojs", "videojs-plugin">>

\* C9: a call leaves its arguments and the shared DEFAULTS table as they
\* were: the document passed (the current document on the first run, the
\* previous output on a later one) is unchanged after the call, the context
\* is unchanged, and DEFAULTS never changes once the module is loaded.
C9_NoMutation ==
  [][ /\ op' = "generated" => current' = current
      /\ op' = "regenerated" => current' = result
      /\ op # "init" => DEFAULTS' = DEFAULTS
      /\ context' = context ]_vars

C9_Witness ==
  /\ Returned /\ op = "generated"
  /\ has(field(current, "devDependencies"), "husky")
  /\ ~has(result["devDependencies"], "husky")
  /\ has(DEFAULTS.devDependencies, "husky")
  /\ Len(result["scripts"]) > Len(field(current, "scripts"))

Suffix(k) == substr(k, IF startsWith(k, "pre") THEN 3 ELSE 4)

\* C10: a pre/post script whose suffix names no script of the set comes
\* after every core script, and such orphans keep the order in which their
\* keys were inserted (the current document's keys, then the generated ones).
C10_OrphansLast ==
  Returned =>
    LET m == result["scripts"]
        ks == KeySet(m)
        inserted == uniq(Keys(field(current, "scripts"))
                         \o Keys(GeneratedScripts(context)))
        cores == {k \in ks : ~isPrePost(k)}
        orphans == {k \in ks : isPrePost(k) /\ Suffix(k) \notin ks}
    IN  \A o \in orphans :
          /\ \A c \in cores : Pos(m, c) < Pos(m, o)
          /\ \A o2 \in orphans :
               indexOf(inserted, o) < indexOf(inserted, o2) => Pos(m, o) < Pos(m, o2)

C10_Witness ==
  /\ Returned /\ op = "generated"
  /\ Keys(field(current, "scripts")) = <<"postinstall", "pre">>
  /\ LET m == result["scripts"]
     IN  /\ Pos(m, "postinstall") = Len(m) - 2
         /\ Pos(m, "pre") = Len(m) - 1
         /\ Pos(m, "prepublishOnly") = Len(m)
         /\ Pos(m, "prebuild") = Pos(m, "build") - 1
====
